---- MODULE Spec2Model ----
(***************************************************************************)
(* A state-machine model of the personal finance API: the relational store *)
(* (users, categories, budgets, transactions) driven by the route          *)
(* handlers of app/routes, the reporting arithmetic of app/routes/reports, *)
(* and the in-process rate limiter of app/utils/rate_limiter.              *)
(*                                                                         *)
(* Money is counted in integer cents, calendar dates are day ordinals and  *)
(* datetimes are ticks (TicksPerDay ticks per day).  Payload columns that  *)
(* no handler branches on (category description, budget name, password     *)
(* hash) are left out of the rows.                                         *)
(***************************************************************************)
EXTENDS Integers, Sequences, FiniteSets, Bags, TLC

\* ------------------------------------------------------------------ bounds
MaxUsers == 2
MaxCategories == 2
MaxBudgets == 2
MaxTransactions == 2
MaxDay == 2
TicksPerDay == 2
MaxNow == 3
SignificandBits == 6    \* the precision of a float (53 for the doubles of Python)
DaysPerMonth == 2       \* the days of a calendar month
MaxMonths == 26         \* the largest months parameter of monthly_spending
TickSeconds == 30       \* the step of time.time()
MaxClock == 90
NumThreads == 2         \* concurrent requests inside is_rate_limited
ConcCeiling == 2        \* requests_per_minute of the limiter under concurrency

\* RateLimiter(requests_per_minute=60), and the 60 of minute_ago.
DefaultRequestsPerMinute == 60
WindowSeconds == 60

\* None for an Optional[date] / Optional[datetime] request field.
NoDate == -1
NoCategory == 0          \* category_id: Optional[int] = None

Emails == {"a@x", "b@x"}
CategoryNames == {"Food", "Rent"}
BudgetAmounts == {0, 100}
TransactionAmounts == {0, 10, 25}
Descriptions == {"lunch"}

UserIds == 1..MaxUsers
CategoryIds == 1..MaxCategories
BudgetIds == 1..MaxBudgets
TransactionIds == 1..MaxTransactions
Days == 0..MaxDay
Ticks == 0..MaxNow
Years == {2024, 2025}
Calendars == [year : Years, month : 1..12]
Clients == {"10.0.0.1", "10.0.0.2"}
ThreadIds == 1..NumThreads

VARIABLES
    users,              \* rows of the users table: [id, email]
    categories,         \* rows of categories: [id, user_id, name]
    budgets,            \* rows of budgets: [id, user_id, category_id, amount, start_date, end_date]
    transactions,       \* rows of transactions: [id, user_id, category_id, amount, description, date]
    nextUserId,         \* the primary-key sequences of the four tables
    nextCategoryId,
    nextBudgetId,
    nextTransactionId,
    now,                \* datetime.now(), in ticks
    resp,               \* the response to the last request
    calendar,           \* date.today() as [year, month], for the month arithmetic
    clock,              \* time.time(), in seconds
    requests_per_minute,\* RateLimiter.requests_per_minute
    request_counts,     \* RateLimiter.request_counts: client address -> timestamps
    lock,               \* RateLimiter.lock: 0 when free, else the holding thread
    threads,            \* the requests inside is_rate_limited, one per server thread
    admitted,           \* per client, the bag of timestamps is_rate_limited admitted
    sessions            \* the create_budget requests in flight, one per server thread

store == <<users, categories, budgets, transactions,
           nextUserId, nextCategoryId, nextBudgetId, nextTransactionId>>
limiter == <<clock, requests_per_minute, request_counts, lock, threads, admitted>>
vars == <<users, categories, budgets, transactions,
          nextUserId, nextCategoryId, nextBudgetId, nextTransactionId, now, resp,
          calendar, clock, requests_per_minute, request_counts, lock, threads, admitted,
          sessions>>

\* ----------------------------------------------------------------- helpers
\* func.date(x) / date.today(): the calendar day of a datetime.
DateOf(t) == t \div TicksPerDay
Today == DateOf(now)

Resp(op, user, id, status, detail, body) ==
    [op |-> op, user |-> user, id |-> id, status |-> status, detail |-> detail, body |-> body]

RECURSIVE SumAmount(_)
\* func.sum(Transaction.amount) over a set of rows (0 stands for SQL NULL "or 0").
SumAmount(rows) ==
    IF rows = {} THEN 0
    ELSE LET r == CHOOSE x \in rows : TRUE
         IN r.amount + SumAmount(rows \ {r})

RECURSIVE ById(_)
\* .all(): the rows of a query, in primary-key order.
ById(rows) ==
    IF rows = {} THEN <<>>
    ELSE LET r == CHOOSE x \in rows : \A y \in rows : x.id <= y.id
         IN <<r>> \o ById(rows \ {r})

\* get_current_active_user: the caller is a registered user.
IsUser(u) == \E x \in users : x.id = u

\* db.query(Category).filter(Category.id == cid, Category.user_id == u).first()
OwnedCategory(u, cid) == {c \in categories : c.id = cid /\ c.user_id = u}
\* (mutation: the budget lookup without its owner filter)
OwnedBudget_AnyOwner(u, bid) == {b \in budgets : b.id = bid}
OwnedBudget(u, bid) == {b \in budgets : b.id = bid /\ b.user_id = u}
OwnedTransaction(u, tid) == {t \in transactions : t.id = tid /\ t.user_id = u}

EmptyResp == Resp("none", 0, 0, 0, "", <<>>)

\* A server thread that is not inside is_rate_limited.
IdleThread == [pc |-> "idle", client_ip |-> "", current_time |-> 0, kept |-> <<>>,
               limited |-> FALSE]

\* A server thread that is not inside create_budget.
IdleSession == [pc |-> "idle", user |-> 0, amount |-> 0, category_id |-> 0,
                start_date |-> NoDate, end_date |-> NoDate]

\* No request in flight.
InitSessions == sessions = [t \in ThreadIds |-> IdleSession]

\* RateLimiter.__init__ with this ceiling, and the clocks at their origin.
InitLimiter(ceiling) ==
    /\ clock = 0
    /\ requests_per_minute = ceiling
    /\ request_counts = [c \in Clients |-> <<>>]
    /\ lock = 0
    /\ threads = [t \in ThreadIds |-> IdleThread]
    /\ admitted = [c \in Clients |-> EmptyBag]

Init ==
    /\ users = {}
    /\ categories = {}
    /\ budgets = {}
    /\ transactions = {}
    /\ nextUserId = 1
    /\ nextCategoryId = 1
    /\ nextBudgetId = 1
    /\ nextTransactionId = 1
    /\ now = 0
    /\ resp = EmptyResp
    /\ calendar = [year |-> 2025, month |-> 3]
    /\ InitSessions
    /\ InitLimiter(DefaultRequestsPerMinute)

\* ------------------------------------------------------------------- clock
Tick ==
    /\ now < MaxNow
    /\ now' = now + 1
    /\ UNCHANGED <<store, resp, calendar, limiter, sessions>>

\* ------------------------------------------------------------------- users
\* POST /users/: the user row is committed, then the default categories are
\* built from the name Category, which routes/users.py never imports: the
\* handler raises NameError after the first commit, and the general
\* exception handler answers 500.
create_user(email) ==
    IF \E x \in users : x.email = email
    THEN /\ resp' = Resp("create_user", 0, 0, 400, "Email already registered", <<>>)
         /\ UNCHANGED <<store, now, calendar, limiter, sessions>>
    ELSE /\ nextUserId <= MaxUsers
         /\ users' = users \cup {[id |-> nextUserId, email |-> email]}
         /\ nextUserId' = nextUserId + 1
         /\ resp' = Resp("create_user", 0, nextUserId, 500, "Internal server error", <<>>)
         /\ UNCHANGED <<categories, budgets, transactions,
                        nextCategoryId, nextBudgetId, nextTransactionId, now, calendar, limiter, sessions>>

\* -------------------------------------------------------------- categories
create_category(u, name) ==
    /\ IsUser(u)
    /\ IF \E c \in categories : c.name = name /\ c.user_id = u
       THEN /\ resp' = Resp("create_category", u, 0, 400, "Category already exists", <<>>)
            /\ UNCHANGED <<store, now, calendar, limiter, sessions>>
       ELSE /\ nextCategoryId <= MaxCategories
            /\ LET row == [id |-> nextCategoryId, user_id |-> u, name |-> name]
               IN /\ categories' = categories \cup {row}
                  /\ resp' = Resp("create_category", u, row.id, 200, "", <<row>>)
            /\ nextCategoryId' = nextCategoryId + 1
            /\ UNCHANGED <<users, budgets, transactions,
                           nextUserId, nextBudgetId, nextTransactionId, now, calendar, limiter, sessions>>

read_category(u, cid) ==
    /\ IsUser(u)
    /\ LET found == OwnedCategory(u, cid)
       IN IF found = {}
          THEN resp' = Resp("read_category", u, cid, 404, "Category not found", <<>>)
          ELSE resp' = Resp("read_category", u, cid, 200, "", ById(found))
    /\ UNCHANGED <<store, now, calendar, limiter, sessions>>

\* The categories table takes any row: the names of a user's categories are
\* under no constraint of the table itself.
CategoryTableAccepts(row) == TRUE

update_category(u, cid, name) ==
    /\ IsUser(u)
    /\ LET found == OwnedCategory(u, cid)
       IN IF found = {}
          THEN /\ resp' = Resp("update_category", u, cid, 404, "Category not found", <<>>)
               /\ UNCHANGED <<store, now, calendar, limiter, sessions>>
          ELSE LET row == [id |-> cid, user_id |-> u, name |-> name]
               IN /\ CategoryTableAccepts(row)
                  /\ categories' = (categories \ found) \cup {row}
                  /\ resp' = Resp("update_category", u, cid, 200, "", <<row>>)
                  /\ UNCHANGED <<users, budgets, transactions, nextUserId,
                                 nextCategoryId, nextBudgetId, nextTransactionId, now, calendar, limiter, sessions>>

\* What deleting a category row does to the budget and transaction rows that
\* reference it: nothing (no cascade, and the reference is not guarded).
BudgetsAfterCategoryDelete(cid) == budgets
TransactionsAfterCategoryDelete(cid) == transactions

delete_category(u, cid) ==
    /\ IsUser(u)
    /\ LET found == OwnedCategory(u, cid)
       IN IF found = {}
          THEN /\ resp' = Resp("delete_category", u, cid, 404, "Category not found", <<>>)
               /\ UNCHANGED <<store, now, calendar, limiter, sessions>>
          ELSE /\ categories' = categories \ found
               /\ budgets' = BudgetsAfterCategoryDelete(cid)
               /\ transactions' = TransactionsAfterCategoryDelete(cid)
               /\ resp' = Resp("delete_category", u, cid, 200, "Category deleted successfully", <<>>)
               /\ UNCHANGED <<users, nextUserId, nextCategoryId, nextBudgetId,
                              nextTransactionId, now, calendar, limiter, sessions>>

\* ----------------------------------------------------------------- budgets
\* BudgetCreate (BudgetBase): amount: float = Field(..., gt=0).
BudgetCreateValid(amount) == amount > 0

\* The overlap query of create_budget.  A request without start_date compares
\* Budget.end_date >= NULL, which no row satisfies.
ExistingBudget(u, category_id, start_date, end_date) ==
    {b \in budgets : /\ b.category_id = category_id
                     /\ b.user_id = u
                     /\ start_date # NoDate
                     /\ b.end_date >= start_date
                     /\ b.start_date <= end_date}

create_budget(u, amount, category_id, start_date, end_date) ==
    /\ IsUser(u)
    /\ IF ~BudgetCreateValid(amount)
       THEN /\ resp' = Resp("create_budget", u, 0, 422, "Validation error", <<>>)
            /\ UNCHANGED <<store, now, calendar, limiter, sessions>>
       ELSE IF OwnedCategory(u, category_id) = {}
       THEN /\ resp' = Resp("create_budget", u, 0, 404, "Category not found", <<>>)
            /\ UNCHANGED <<store, now, calendar, limiter, sessions>>
       ELSE IF ExistingBudget(u, category_id, start_date, end_date) # {}
       THEN /\ resp' = Resp("create_budget", u, 0, 400,
                            "A budget for this category and time period already exists", <<>>)
            /\ UNCHANGED <<store, now, calendar, limiter, sessions>>
       ELSE /\ nextBudgetId <= MaxBudgets
            /\ LET row == [id |-> nextBudgetId, user_id |-> u, category_id |-> category_id,
                           amount |-> amount,
                           start_date |-> IF start_date # NoDate THEN start_date ELSE Today,
                           end_date |-> end_date]
               IN /\ budgets' = budgets \cup {row}
                  /\ resp' = Resp("create_budget", u, row.id, 200, "", <<row>>)
            /\ nextBudgetId' = nextBudgetId + 1
            /\ UNCHANGED <<users, categories, transactions,
                           nextUserId, nextCategoryId, nextTransactionId, now, calendar, limiter, sessions>>

\* create_budget step by step, one server thread and one database session
\* per request: the two queries of the handler ...
create_budget_query(t, u, amount, category_id, start_date, end_date) ==
    /\ IsUser(u)
    /\ sessions[t].pc = "idle"
    /\ IF ~BudgetCreateValid(amount)
       THEN /\ resp' = Resp("create_budget", u, 0, 422, "Validation error", <<>>)
            /\ UNCHANGED sessions
       ELSE IF OwnedCategory(u, category_id) = {}
       THEN /\ resp' = Resp("create_budget", u, 0, 404, "Category not found", <<>>)
            /\ UNCHANGED sessions
       ELSE IF ExistingBudget(u, category_id, start_date, end_date) # {}
       THEN /\ resp' = Resp("create_budget", u, 0, 400,
                            "A budget for this category and time period already exists", <<>>)
            /\ UNCHANGED sessions
       ELSE /\ sessions' = [sessions EXCEPT ![t] =
                              [pc |-> "commit", user |-> u, amount |-> amount,
                               category_id |-> category_id,
                               start_date |-> start_date, end_date |-> end_date]]
            /\ UNCHANGED resp
    /\ UNCHANGED <<store, now, calendar, limiter>>

\* What the database answers to the commit of a budget row while another
\* session has committed since this session's overlap query: it accepts the
\* row (requests execute concurrently; no constraint of the budgets table
\* covers the windows).
CommitAccepted(row) == TRUE

\* ... and db.add(db_budget); db.commit(); db.refresh(db_budget); return.
create_budget_commit(t) ==
    /\ sessions[t].pc = "commit"
    /\ nextBudgetId <= MaxBudgets
    /\ LET r == sessions[t]
           row == [id |-> nextBudgetId, user_id |-> r.user, category_id |-> r.category_id,
                   amount |-> r.amount,
                   start_date |-> IF r.start_date # NoDate THEN r.start_date ELSE Today,
                   end_date |-> r.end_date]
       IN /\ CommitAccepted(row)
          /\ budgets' = budgets \cup {row}
          /\ resp' = Resp("create_budget", r.user, row.id, 200, "", <<row>>)
    /\ nextBudgetId' = nextBudgetId + 1
    /\ sessions' = [sessions EXCEPT ![t] = IdleSession]
    /\ UNCHANGED <<users, categories, transactions,
                   nextUserId, nextCategoryId, nextTransactionId, now, calendar, limiter>>

read_budget(u, bid) ==
    /\ IsUser(u)
    /\ LET found == OwnedBudget(u, bid)
       IN IF found = {}
          THEN resp' = Resp("read_budget", u, bid, 404, "Budget not found", <<>>)
          ELSE resp' = Resp("read_budget", u, bid, 200, "", ById(found))
    /\ UNCHANGED <<store, now, calendar, limiter, sessions>>

update_budget(u, bid, amount, category_id, start_date, end_date) ==
    /\ IsUser(u)
    /\ LET found == OwnedBudget(u, bid)
       IN IF ~BudgetCreateValid(amount)
          THEN /\ resp' = Resp("update_budget", u, bid, 422, "Validation error", <<>>)
               /\ UNCHANGED <<store, now, calendar, limiter, sessions>>
          ELSE IF found = {}
          THEN /\ resp' = Resp("update_budget", u, bid, 404, "Budget not found", <<>>)
               /\ UNCHANGED <<store, now, calendar, limiter, sessions>>
          ELSE IF OwnedCategory(u, category_id) = {}
          THEN /\ resp' = Resp("update_budget", u, bid, 404, "Category not found", <<>>)
               /\ UNCHANGED <<store, now, calendar, limiter, sessions>>
          ELSE LET old == CHOOSE b \in found : TRUE
                   row == [id |-> bid, user_id |-> u, category_id |-> category_id,
                           amount |-> amount,
                           start_date |-> IF start_date # NoDate THEN start_date
                                          ELSE old.start_date,
                           end_date |-> end_date]
               IN /\ budgets' = (budgets \ found) \cup {row}
                  /\ resp' = Resp("update_budget", u, bid, 200, "", <<row>>)
                  /\ UNCHANGED <<users, categories, transactions, nextUserId,
                                 nextCategoryId, nextBudgetId, nextTransactionId, now, calendar, limiter, sessions>>

delete_budget(u, bid) ==
    /\ IsUser(u)
    /\ LET found == OwnedBudget(u, bid)
       IN IF found = {}
          THEN /\ resp' = Resp("delete_budget", u, bid, 404, "Budget not found", <<>>)
               /\ UNCHANGED <<store, now, calendar, limiter, sessions>>
          ELSE /\ budgets' = budgets \ found
               /\ resp' = Resp("delete_budget", u, bid, 200, "Budget deleted successfully", <<>>)
               /\ UNCHANGED <<users, categories, transactions, nextUserId,
                              nextCategoryId, nextBudgetId, nextTransactionId, now, calendar, limiter, sessions>>

\* ------------------------------------------------------------ transactions
\* The validators of TransactionBase, which the response model Transaction
\* inherits and the request model TransactionCreate does not: they run on the
\* row a handler returns, after it was committed.
\* (amount_precision always passes: amounts are whole cents.)
description_not_empty(description) == description # ""
check_future_date(date) == ~(date # NoDate /\ date > now)

TransactionBaseValid(row) ==
    /\ row.amount > 0
    /\ Len(row.description) >= 3
    /\ Len(row.description) <= 100
    /\ row.category_id > 0
    /\ description_not_empty(row.description)
    /\ check_future_date(row.date)

\* What the client gets for a row returned under response_model=Transaction.
TransactionResponse(op, u, row, ok_status) ==
    IF TransactionBaseValid(row)
    THEN Resp(op, u, row.id, ok_status, "", <<row>>)
    ELSE Resp(op, u, row.id, 500, "Internal server error", <<>>)

create_transaction(u, amount, description, category_id, date) ==
    /\ IsUser(u)
    /\ IF OwnedCategory(u, category_id) = {}
       THEN /\ resp' = Resp("create_transaction", u, 0, 404,
                            "Category not found or does not belong to you", <<>>)
            /\ UNCHANGED <<store, now, calendar, limiter, sessions>>
       ELSE /\ nextTransactionId <= MaxTransactions
            /\ LET row == [id |-> nextTransactionId, user_id |-> u,
                           category_id |-> category_id, amount |-> amount,
                           description |-> description,
                           date |-> IF date = NoDate THEN now ELSE date]
               IN /\ transactions' = transactions \cup {row}
                  /\ resp' = TransactionResponse("create_transaction", u, row, 201)
            /\ nextTransactionId' = nextTransactionId + 1
            /\ UNCHANGED <<users, categories, budgets,
                           nextUserId, nextCategoryId, nextBudgetId, now, calendar, limiter, sessions>>

read_transaction(u, tid) ==
    /\ IsUser(u)
    /\ LET found == OwnedTransaction(u, tid)
       IN IF found = {}
          THEN resp' = Resp("read_transaction", u, tid, 404, "Transaction not found", <<>>)
          ELSE resp' = TransactionResponse("read_transaction", u,
                                           CHOOSE t \in found : TRUE, 200)
    /\ UNCHANGED <<store, now, calendar, limiter, sessions>>

RECURSIVE ByDateDesc(_)
\* order_by(Transaction.date.desc()).offset(0).limit(100).all(); equal dates
\* by id.
ByDateDesc(rows) ==
    IF rows = {} THEN <<>>
    ELSE LET r == CHOOSE x \in rows :
                     \A y \in rows : \/ x.date > y.date
                                     \/ x.date = y.date /\ x.id <= y.id
         IN <<r>> \o ByDateDesc(rows \ {r})

\* GET /transactions/ with the default skip and limit; category_id is
\* NoCategory when the filter is omitted. The HTTPException for a category
\* that is not the caller's is raised inside the try block, whose "except
\* Exception" turns it into a 500.
read_transactions(u, category_id) ==
    /\ IsUser(u)
    /\ IF category_id # NoCategory /\ OwnedCategory(u, category_id) = {}
       THEN resp' = Resp("read_transactions", u, category_id, 500,
                         "Error retrieving transactions: 404: Category not found or does not belong to you",
                         <<>>)
       ELSE LET rows == {t \in transactions :
                            /\ t.user_id = u
                            /\ category_id # NoCategory => t.category_id = category_id}
            IN IF \A t \in rows : TransactionBaseValid(t)
               THEN resp' = Resp("read_transactions", u, category_id, 200, "", ByDateDesc(rows))
               ELSE resp' = Resp("read_transactions", u, category_id, 500,
                                 "Internal server error", <<>>)
    /\ UNCHANGED <<store, now, calendar, limiter, sessions>>

update_transaction(u, tid, amount, description, category_id, date) ==
    /\ IsUser(u)
    /\ LET found == OwnedTransaction(u, tid)
       IN IF found = {}
          THEN /\ resp' = Resp("update_transaction", u, tid, 404, "Transaction not found", <<>>)
               /\ UNCHANGED <<store, now, calendar, limiter, sessions>>
          ELSE IF OwnedCategory(u, category_id) = {}
          THEN /\ resp' = Resp("update_transaction", u, tid, 404,
                               "Category not found or does not belong to you", <<>>)
               /\ UNCHANGED <<store, now, calendar, limiter, sessions>>
          ELSE LET old == CHOOSE t \in found : TRUE
                   row == [id |-> tid, user_id |-> u, category_id |-> category_id,
                           amount |-> amount, description |-> description,
                           date |-> IF date # NoDate THEN date ELSE old.date]
               IN /\ transactions' = (transactions \ found) \cup {row}
                  /\ resp' = TransactionResponse("update_transaction", u, row, 200)
                  /\ UNCHANGED <<users, categories, budgets, nextUserId,
                                 nextCategoryId, nextBudgetId, nextTransactionId, now, calendar, limiter, sessions>>

delete_transaction(u, tid) ==
    /\ IsUser(u)
    /\ LET found == OwnedTransaction(u, tid)
       IN IF found = {}
          THEN /\ resp' = Resp("delete_transaction", u, tid, 404, "Transaction not found", <<>>)
               /\ UNCHANGED <<store, now, calendar, limiter, sessions>>
          ELSE /\ transactions' = transactions \ found
               /\ resp' = Resp("delete_transaction", u, tid, 204, "", <<>>)
               /\ UNCHANGED <<users, categories, budgets, nextUserId,
                              nextCategoryId, nextBudgetId, nextTransactionId, now, calendar, limiter, sessions>>


\* ----------------------------------------------------------------- reports
\* The transactions a budget's spent sums: the caller's, of the budget's
\* category, with func.date(Transaction.date) inside [start_date, end_date].
\* (mutation: the end date of the window left out)
BudgetTransactions_EndExclusive(u, b) ==
    {t \in transactions : /\ t.user_id = u
                          /\ t.category_id = b.category_id
                          /\ DateOf(t.date) >= b.start_date
                          /\ DateOf(t.date) < b.end_date}
\* The rows the spent query of get_budget_status and budget_performance sums:
\* func.date(Transaction.date) between start_date and end_date.
BudgetTransactions(u, b) ==
    {t \in transactions : /\ t.user_id = u
                          /\ t.category_id = b.category_id
                          /\ DateOf(t.date) >= b.start_date
                          /\ DateOf(t.date) <= b.end_date}

Spent(u, b) == SumAmount(BudgetTransactions(u, b))

\* (mutation: the quotient not scaled to a percentage)
PercentageUsed_Unscaled(spent, amount) == IF amount > 0 THEN spent \div amount ELSE 0
\* spent / amount * 100 if amount > 0 else 0 (exact: budget amounts are
\* multiples of 100 cents).
PercentageUsed(spent, amount) == IF amount > 0 THEN (spent * 100) \div amount ELSE 0

\* db.query(Category).filter(Category.id == budget.category_id).first()
BudgetCategory(b) == {c \in categories : c.id = b.category_id}

BudgetStatusOf(u, b) ==
    LET spent == Spent(u, b)
    IN [id |-> b.id, user_id |-> b.user_id, amount |-> b.amount,
        start_date |-> b.start_date, end_date |-> b.end_date,
        category_id |-> b.category_id,
        spent |-> spent,
        remaining |-> b.amount - spent,
        percentage_used |-> PercentageUsed(spent, b.amount),
        category |-> BudgetCategory(b)]

\* The budgets get_budget_status reports on.
SelectedBudgets(u, active_only) ==
    {b \in budgets : /\ b.user_id = u
                     /\ active_only => (b.start_date <= Today /\ b.end_date >= Today)}

RECURSIVE BudgetStatuses(_, _)
\* budget_statuses: one BudgetStatus per selected budget, in query order.
BudgetStatuses(u, rows) ==
    IF rows = <<>> THEN <<>>
    ELSE <<BudgetStatusOf(u, Head(rows))>> \o BudgetStatuses(u, Tail(rows))

\* GET /budgets/status.  BudgetStatus.category is a required Category: a
\* budget whose category row is gone makes BudgetStatus(...) raise a pydantic
\* ValidationError, answered 422 by pydantic_validation_handler.
get_budget_status(u, active_only) ==
    /\ IsUser(u)
    /\ LET selected == SelectedBudgets(u, active_only)
       IN IF \E b \in selected : BudgetCategory(b) = {}
          THEN resp' = Resp("get_budget_status", u, 0, 422, "Data validation error", <<>>)
          ELSE resp' = Resp("get_budget_status", u, 0, 200, "",
                            BudgetStatuses(u, ById(selected)))
    /\ UNCHANGED <<store, now, calendar, limiter, sessions>>

\* is_active = budget.start_date <= today <= budget.end_date
IsActive(b) == b.start_date <= Today /\ Today <= b.end_date

\* (mutation: the days to the end date, active or not)
DaysRemaining_Unguarded(b) == b.end_date - Today
\* days_remaining = (budget.end_date - today).days if is_active else 0
DaysRemaining(b) == IF IsActive(b) THEN b.end_date - Today ELSE 0

\* (mutation: the days since the start, not capped by the length of the window)
DaysElapsed_Uncapped(b) == Today - b.start_date
\* days_elapsed = min((today - budget.start_date).days, total_days)
DaysElapsed(b) ==
    LET total_days == b.end_date - b.start_date
        since_start == Today - b.start_date
    IN IF since_start <= total_days THEN since_start ELSE total_days

\* (mutation: the forecast without the days that remain)
ForecastNumerator_SpentOnly(spent, days_elapsed, days_remaining) == spent * days_elapsed
\* spent + (daily_burn_rate * days_remaining), over the denominator
\* days_elapsed of daily_burn_rate.
ForecastNumerator(spent, days_elapsed, days_remaining) ==
    spent * days_elapsed + spent * days_remaining

\* One entry of budget_performance.  Quotients are kept as <<numerator,
\* denominator>> pairs.
PerformanceOf(u, b) ==
    LET spent == Spent(u, b)
        percentage_used == PercentageUsed(spent, b.amount)
        days_remaining == DaysRemaining(b)
        days_elapsed == DaysElapsed(b)
        forecast_num == ForecastNumerator(spent, days_elapsed, days_remaining)
    IN [budget_id |-> b.id,
        start_date |-> b.start_date, end_date |-> b.end_date,
        is_active |-> IsActive(b),
        budget_amount |-> b.amount,
        spent |-> spent,
        remaining |-> b.amount - spent,
        percentage_used |-> percentage_used,
        status |-> IF percentage_used <= 100 THEN "On Track" ELSE "Over Budget",
        days_remaining |-> IF days_remaining > 0 THEN days_remaining ELSE 0,
        daily_burn_rate |-> IF days_elapsed > 0 THEN <<spent, days_elapsed>> ELSE <<0, 1>>,
        forecast_end_amount |-> IF days_elapsed > 0 THEN <<forecast_num, days_elapsed>>
                                ELSE <<0, 1>>,
        forecast_status |-> IF days_elapsed > 0
                            THEN IF forecast_num <= b.amount * days_elapsed
                                 THEN "Under Budget" ELSE "Projected Over Budget"
                            ELSE "Not Started"]

RECURSIVE PerformanceData(_, _)
\* performance_data: one entry per budget of the caller, in query order.
PerformanceData(u, rows) ==
    IF rows = <<>> THEN <<>>
    ELSE <<PerformanceOf(u, Head(rows))>> \o PerformanceData(u, Tail(rows))

\* GET /reports/budget-performance.  category.name is read for every budget:
\* a budget whose category row is gone raises AttributeError on None,
\* answered 500 by general_exception_handler.
budget_performance(u) ==
    /\ IsUser(u)
    /\ LET mine == {b \in budgets : b.user_id = u}
       IN IF \E b \in mine : BudgetCategory(b) = {}
          THEN resp' = Resp("budget_performance", u, 0, 500, "Internal server error", <<>>)
          ELSE resp' = Resp("budget_performance", u, 0, 200, "",
                            PerformanceData(u, ById(mine)))
    /\ UNCHANGED <<store, now, calendar, limiter, sessions>>


\* ------------------------------------------------------- float arithmetic
\* A float is a rational <<numerator, denominator>> with a significand of
\* SignificandBits bits; / and * round to the nearest float, ties to even.
RECURSIVE Pow2(_)
Pow2(n) == IF n = 0 THEN 1 ELSE 2 * Pow2(n - 1)

Abs(x) == IF x < 0 THEN -x ELSE x

RECURSIVE Normalize(_, _, _)
\* <<a', d', s>> with a' / d' = (a / d) * 2^s inside [2^(bits-1), 2^bits).
Normalize(a, d, s) ==
    IF a >= d * Pow2(SignificandBits) THEN Normalize(a, 2 * d, s - 1)
    ELSE IF a < d * Pow2(SignificandBits - 1) THEN Normalize(2 * a, d, s + 1)
    ELSE <<a, d, s>>

RoundHalfEven(a, d) ==
    LET q == a \div d
        r == a % d
    IN IF 2 * r > d THEN q + 1
       ELSE IF 2 * r = d THEN q + (q % 2)
       ELSE q

\* The float nearest to n / d (d > 0).
Fl(n, d) ==
    IF n = 0 THEN <<0, 1>>
    ELSE LET sign == IF n < 0 THEN -1 ELSE 1
             nm == Normalize(Abs(n), d, 0)
             m == RoundHalfEven(nm[1], nm[2])
         IN IF nm[3] >= 0 THEN <<sign * m, Pow2(nm[3])>>
            ELSE <<sign * m * Pow2(-nm[3]), 1>>

\* ---------------------------------------------------- spending by category
\* date(today.year, today.month, 1)
FirstOfMonth(day) == day - (day % DaysPerMonth)

\* The joined rows of one category: the caller's transactions of that
\* category inside [start_date, end_date].
CategorySpending(u, c, start_date, end_date) ==
    {t \in transactions : /\ t.category_id = c.id
                          /\ t.user_id = u
                          /\ DateOf(t.date) >= start_date
                          /\ DateOf(t.date) <= end_date}

\* (mutation: the share of the total not scaled to a percentage)
SpendingPercentage_Unscaled(total, total_spending) ==
    IF total_spending > 0 THEN Fl(total, total_spending) ELSE <<0, 1>>
\* (item["total"] / total_spending * 100) if total_spending > 0 else 0
SpendingPercentage(total, total_spending) ==
    IF total_spending > 0
    THEN LET share == Fl(total, total_spending)
         IN Fl(share[1] * 100, share[2])
    ELSE <<0, 1>>

RECURSIVE ByTotalDesc(_)
\* order_by(func.sum(Transaction.amount).desc()); equal totals by id.
ByTotalDesc(items) ==
    IF items = {} THEN <<>>
    ELSE LET r == CHOOSE x \in items :
                     \A y \in items : \/ x.total > y.total
                                      \/ x.total = y.total /\ x.category_id <= y.category_id
         IN <<r>> \o ByTotalDesc(items \ {r})

RECURSIVE WithPercentage(_, _)
\* for item in spending_data: item["percentage"] = ...
WithPercentage(items, total_spending) ==
    IF items = <<>> THEN <<>>
    ELSE <<[category_id |-> Head(items).category_id,
            category_name |-> Head(items).category_name,
            total |-> Head(items).total,
            percentage |-> SpendingPercentage(Head(items).total, total_spending)]>>
         \o WithPercentage(Tail(items), total_spending)

RECURSIVE SumTotal(_)
\* sum(item["total"] for item in spending_data)
SumTotal(items) == IF items = <<>> THEN 0 ELSE Head(items).total + SumTotal(Tail(items))

\* GET /reports/spending-by-category.
spending_by_category(u, start_date, end_date) ==
    /\ IsUser(u)
    /\ LET start == IF start_date = NoDate THEN FirstOfMonth(Today) ELSE start_date
           end == IF end_date = NoDate THEN Today ELSE end_date
           groups == {c \in categories : CategorySpending(u, c, start, end) # {}}
           results == ByTotalDesc({[category_id |-> c.id, category_name |-> c.name,
                                    total |-> SumAmount(CategorySpending(u, c, start, end))]
                                   : c \in groups})
           total_spending == SumTotal(results)
       IN resp' = Resp("spending_by_category", u, 0, 200, "",
                       <<[start_date |-> start, end_date |-> end,
                          total_spending |-> total_spending,
                          spending_by_category |-> WithPercentage(results, total_spending)]>>)
    /\ UNCHANGED <<store, now, calendar, limiter, sessions>>

\* --------------------------------------------------------- monthly report
\* The start_date of monthly_spending: date(year - ((month - months) // 12),
\* ((month - months) % 12) + 1 if (month - months) % 12 > 0 else 12, 1).
\* // and % round towards minus infinity, as \div and % do.
MonthlyStartDate(year, month, months) ==
    LET d == month - months
    IN [year |-> year - (d \div 12),
        month |-> IF d % 12 > 0 THEN (d % 12) + 1 ELSE 12,
        day |-> 1]

\* GET /reports/monthly-spending: the date range of the query.
monthly_spending(u, months) ==
    /\ IsUser(u)
    /\ resp' = Resp("monthly_spending", u, 0, 200, "",
                    <<[months_analyzed |-> months,
                       start_date |-> MonthlyStartDate(calendar.year, calendar.month, months)]>>)
    /\ UNCHANGED <<store, now, calendar, limiter, sessions>>

\* -------------------------------------------------------- transaction trends
\* (mutation: a month <= 0 is not carried into the previous year)
TrendsStartMonth_NoBorrow(year, month, timeframe) ==
    [year |-> year - (timeframe \div 12), month |-> month - (timeframe % 12), day |-> 1]

\* The start_date of the monthly interval: year = today.year - (timeframe //
\* 12), month = today.month - (timeframe % 12), a month <= 0 borrowing a year.
TrendsStartMonth(year, month, timeframe) ==
    LET y == year - (timeframe \div 12)
        m == month - (timeframe % 12)
    IN IF m <= 0 THEN [year |-> y - 1, month |-> m + 12, day |-> 1]
       ELSE [year |-> y, month |-> m, day |-> 1]

\* The day a date of the calendar falls on, today lying in calendar.month.
DayOfCalendarDate(d) ==
    FirstOfMonth(Today)
       - ((calendar.year - d.year) * 12 + (calendar.month - d.month)) * DaysPerMonth
       + (d.day - 1)

\* The start of the interval a day belongs to: func.date for "daily",
\* date_trunc('month', ...) for "monthly".
IntervalOf(interval, day) == IF interval = "daily" THEN day ELSE FirstOfMonth(day)

RECURSIVE TrendData(_, _)
\* group_by(date_extract).order_by(date_extract): one entry per interval that
\* has rows.
TrendData(interval, rows) ==
    IF rows = {} THEN <<>>
    ELSE LET first == CHOOSE x \in rows : \A y \in rows : DateOf(x.date) <= DateOf(y.date)
             key == IntervalOf(interval, DateOf(first.date))
             group == {t \in rows : IntervalOf(interval, DateOf(t.date)) = key}
         IN <<[interval |-> key, transaction_count |-> Cardinality(group),
               total_amount |-> SumAmount(group)]>>
            \o TrendData(interval, rows \ group)

\* (mutation: the endpoint clears the caller's transactions it has read)
transaction_trends_Flushing(u, interval, timeframe) ==
    /\ IsUser(u)
    /\ transactions' = {t \in transactions : t.user_id # u}
    /\ resp' = Resp("transaction_trends", u, 0, 200, "",
                    <<[interval |-> interval, timeframe |-> timeframe,
                       trend_data |-> <<>>]>>)
    /\ UNCHANGED <<users, categories, budgets,
                   nextUserId, nextCategoryId, nextBudgetId, nextTransactionId,
                   now, calendar, limiter, sessions>>

\* GET /reports/transaction-trends, for the intervals "daily" and "monthly".
transaction_trends(u, interval, timeframe) ==
    /\ IsUser(u)
    /\ LET start_date == IF interval = "daily" THEN Today - timeframe
                         ELSE DayOfCalendarDate(
                                 TrendsStartMonth(calendar.year, calendar.month, timeframe))
           rows == {t \in transactions : /\ t.user_id = u
                                         /\ DateOf(t.date) >= start_date
                                         /\ DateOf(t.date) <= Today}
       IN resp' = Resp("transaction_trends", u, 0, 200, "",
                       <<[interval |-> interval, timeframe |-> timeframe,
                          trend_data |-> TrendData(interval, rows)]>>)
    /\ UNCHANGED <<store, now, calendar, limiter, sessions>>

\* -------------------------------------------------------- spending insights
\* func.sum(Transaction.amount) of the caller between two days, both included.
SpendingBetween(u, first, last) ==
    {t \in transactions : /\ t.user_id = u
                          /\ DateOf(t.date) >= first
                          /\ DateOf(t.date) <= last}

\* a / b if b > 0 else 0, as <<numerator, denominator>>.
GuardedQuotient(a, b) == IF b > 0 THEN <<a, b>> ELSE <<0, 1>>

\* GET /reports/spending-insights.
spending_insights(u) ==
    /\ IsUser(u)
    /\ LET first_of_month == FirstOfMonth(Today)
           last_month_start == first_of_month - DaysPerMonth
           last_month_end == first_of_month - 1
           this_month == SpendingBetween(u, first_of_month, Today)
           this_month_spending == SumAmount(this_month)
           last_month_spending == SumAmount(SpendingBetween(u, last_month_start,
                                                            last_month_end))
           joined(n) == {t \in this_month :
                            \E c \in categories : c.id = t.category_id /\ c.name = n}
           by_category == ByTotalDesc(
               {[category_id |-> CHOOSE i \in CategoryIds :
                                    \E c \in categories : c.id = i /\ c.name = n,
                 category_name |-> n, total |-> SumAmount(joined(n))]
                : n \in {c.name : c \in {x \in categories : joined(x.name) # {}}}})
           days_elapsed == (Today - first_of_month) + 1
           transaction_count == Cardinality(this_month)
       IN resp' = Resp("spending_insights", u, 0, 200, "",
             <<[this_month_spending |-> this_month_spending,
                last_month_spending |-> last_month_spending,
                month_over_month_change |->
                    GuardedQuotient((this_month_spending - last_month_spending) * 100,
                                    last_month_spending),
                biggest_expense_category |->
                    IF by_category = <<>> THEN "No transactions"
                    ELSE by_category[1].category_name,
                biggest_expense_amount |->
                    IF by_category = <<>> THEN 0 ELSE by_category[1].total,
                average_daily_spending |-> GuardedQuotient(this_month_spending, days_elapsed),
                transaction_count |-> transaction_count,
                average_transaction_amount |->
                    GuardedQuotient(this_month_spending, transaction_count),
                days_elapsed |-> days_elapsed,
                days_in_month |-> DaysPerMonth]>>)
    /\ UNCHANGED <<store, now, calendar, limiter, sessions>>

\* ------------------------------------------------------------ rate limiter
\* (mutation: an entry exactly one window old is kept)
Unexpired_Inclusive(list, minute_ago) == SelectSeq(list, LAMBDA t : t >= minute_ago)
\* [t for t in self.request_counts[client_ip] if t > minute_ago]
Unexpired(list, minute_ago) == SelectSeq(list, LAMBDA t : t > minute_ago)

\* (mutation: the ceiling test off by one)
RateLimited_OffByOne(list) == Len(list) > requests_per_minute
\* len(self.request_counts[client_ip]) >= self.requests_per_minute
RateLimited(list) == Len(list) >= requests_per_minute

AdvanceClock ==
    /\ clock + TickSeconds <= MaxClock
    /\ clock' = clock + TickSeconds
    /\ UNCHANGED <<store, sessions, now, resp, calendar,
                   requests_per_minute, request_counts, lock, threads, admitted>>

\* What rate_limiting_middleware answers: a limited request raises (the
\* exception leaves the middleware and is answered 500), another one goes on
\* to the route handler.
MiddlewareResponse(limited) ==
    IF limited
    THEN Resp("rate_limiting_middleware", 0, 0, 500, "Internal server error", <<>>)
    ELSE Resp("rate_limiting_middleware", 0, 0, 200, "call_next", <<>>)

\* One request passing rate_limiting_middleware with no other request inside
\* is_rate_limited: clean, check, append.
rate_limiting_middleware(c) ==
    LET current_time == clock
        minute_ago == current_time - WindowSeconds
        kept == Unexpired(request_counts[c], minute_ago)
    IN /\ lock = 0
       /\ IF RateLimited(kept)
          THEN /\ request_counts' = [request_counts EXCEPT ![c] = kept]
               /\ resp' = MiddlewareResponse(TRUE)
          ELSE /\ request_counts' = [request_counts EXCEPT ![c] = Append(kept, current_time)]
               /\ resp' = MiddlewareResponse(FALSE)
       /\ UNCHANGED <<store, sessions, now, calendar,
                    clock, requests_per_minute, lock, threads, admitted>>

\* is_rate_limited step by step, one server thread per request.
\* client_ip = request.client.host; current_time = time.time()
enter(t, c) ==
    /\ threads[t].pc = "idle"
    /\ threads' = [threads EXCEPT ![t] = [pc |-> "lock", client_ip |-> c,
                                          current_time |-> clock, kept |-> <<>>,
                                          limited |-> FALSE]]
    /\ UNCHANGED <<store, sessions, now, resp, calendar,
                   clock, requests_per_minute, request_counts, lock, admitted>>

\* (mutation: is_rate_limited without its lock)
LockFree_NoLock(t) == TRUE
\* with self.lock: blocks until no other thread holds the lock.
LockFree(t) == lock = 0

acquire(t) ==
    /\ threads[t].pc = "lock"
    /\ LockFree(t)
    /\ lock' = t
    /\ threads' = [threads EXCEPT ![t].pc = "clean"]
    /\ UNCHANGED <<store, sessions, now, resp, calendar,
                   clock, requests_per_minute, request_counts, admitted>>

\* The list comprehension of the clean-up is built ...
clean_read(t) ==
    /\ threads[t].pc = "clean"
    /\ threads' = [threads EXCEPT
                     ![t].pc = "assign",
                     ![t].kept = Unexpired(request_counts[threads[t].client_ip],
                                           threads[t].current_time - WindowSeconds)]
    /\ UNCHANGED <<store, sessions, now, resp, calendar,
                   clock, requests_per_minute, request_counts, lock, admitted>>

\* ... and assigned to self.request_counts[client_ip].
clean_assign(t) ==
    /\ threads[t].pc = "assign"
    /\ request_counts' = [request_counts EXCEPT ![threads[t].client_ip] = threads[t].kept]
    /\ threads' = [threads EXCEPT ![t].pc = "check", ![t].kept = <<>>]
    /\ UNCHANGED <<store, sessions, now, resp, calendar,
                   clock, requests_per_minute, lock, admitted>>

check(t) ==
    /\ threads[t].pc = "check"
    /\ IF RateLimited(request_counts[threads[t].client_ip])
       THEN threads' = [threads EXCEPT ![t].pc = "release", ![t].limited = TRUE]
       ELSE threads' = [threads EXCEPT ![t].pc = "append"]
    /\ UNCHANGED <<store, sessions, now, resp, calendar,
                   clock, requests_per_minute, request_counts, lock, admitted>>

append(t) ==
    /\ threads[t].pc = "append"
    /\ LET c == threads[t].client_ip
           ts == threads[t].current_time
       IN /\ request_counts' = [request_counts EXCEPT ![c] = Append(@, ts)]
          /\ admitted' = [admitted EXCEPT ![c] = @ (+) SetToBag({ts})]
    /\ threads' = [threads EXCEPT ![t].pc = "release"]
    /\ UNCHANGED <<store, sessions, now, resp, calendar, clock, requests_per_minute, lock>>

\* Leaving the with block releases the lock; the middleware answers.
release(t) ==
    /\ threads[t].pc = "release"
    /\ lock' = 0
    /\ resp' = MiddlewareResponse(threads[t].limited)
    /\ threads' = [threads EXCEPT ![t] = IdleThread]
    /\ UNCHANGED <<store, sessions, now, calendar,
                   clock, requests_per_minute, request_counts, admitted>>

\* ------------------------------------------------------ request parameters
StartDates == Days \cup {NoDate}
TransactionDates == Ticks \cup {NoDate}

\* Both users registered and nothing else stored: the store after two
\* POST /users/ requests.
InitRegistered ==
    /\ users = {[id |-> 1, email |-> "a@x"], [id |-> 2, email |-> "b@x"]}
    /\ categories = {}
    /\ budgets = {}
    /\ transactions = {}
    /\ nextUserId = MaxUsers + 1
    /\ nextCategoryId = 1
    /\ nextBudgetId = 1
    /\ nextTransactionId = 1
    /\ now = 0
    /\ resp = EmptyResp
    /\ calendar = [year |-> 2025, month |-> 3]
    /\ InitSessions
    /\ InitLimiter(DefaultRequestsPerMinute)

\* Both users registered, on any month of the calendar.
InitMonthly ==
    /\ users = {[id |-> 1, email |-> "a@x"], [id |-> 2, email |-> "b@x"]}
    /\ categories = {}
    /\ budgets = {}
    /\ transactions = {}
    /\ nextUserId = MaxUsers + 1
    /\ nextCategoryId = 1
    /\ nextBudgetId = 1
    /\ nextTransactionId = 1
    /\ now = 0
    /\ resp = EmptyResp
    /\ calendar \in Calendars
    /\ InitSessions
    /\ InitLimiter(DefaultRequestsPerMinute)

\* The limiter built with a small ceiling, for the thread-level steps.
InitConcurrent ==
    /\ users = {[id |-> 1, email |-> "a@x"], [id |-> 2, email |-> "b@x"]}
    /\ categories = {}
    /\ budgets = {}
    /\ transactions = {}
    /\ nextUserId = MaxUsers + 1
    /\ nextCategoryId = 1
    /\ nextBudgetId = 1
    /\ nextTransactionId = 1
    /\ now = 0
    /\ resp = EmptyResp
    /\ calendar = [year |-> 2025, month |-> 3]
    /\ InitSessions
    /\ InitLimiter(ConcCeiling)

\* --------------------------------------------------- budget management spec
\* Two registered users create a category each and create, update and delete
\* budgets while the clock advances.
NextBudget ==
    \/ Tick
    \/ \E u \in UserIds : create_category(u, "Food")
    \/ \E u \in UserIds, a \in BudgetAmounts, c \in CategoryIds, s \in StartDates, e \in Days :
          create_budget(u, a, c, s, e)
    \/ \E u \in UserIds, b \in BudgetIds, c \in CategoryIds, s \in StartDates, e \in Days :
          update_budget(u, b, 100, c, s, e)
    \/ \E u \in UserIds, b \in BudgetIds : delete_budget(u, b)

SpecBudget == InitRegistered /\ [][NextBudget]_vars

\* The windows [s1, e1] and [s2, e2] overlap.
Overlap(s1, e1, s2, e2) == e1 >= s2 /\ s1 <= e2

\* C1: after any sequence of create_budget, update_budget and delete_budget
\* requests no two distinct stored budgets of the same user and category have
\* overlapping windows.
C1_NoOverlappingBudgets ==
    \A b1 \in budgets, b2 \in budgets :
        (b1.id # b2.id /\ b1.user_id = b2.user_id /\ b1.category_id = b2.category_id)
            => ~Overlap(b1.start_date, b1.end_date, b2.start_date, b2.end_date)

InterleavedDays == {0, 1}

\* The users create categories and budgets with explicit windows, each
\* create_budget request on a server thread of its own.
NextInterleaved ==
    \/ \E u \in UserIds : create_category(u, "Food")
    \/ \E t \in ThreadIds, u \in UserIds, c \in CategoryIds, s \in InterleavedDays,
          e \in InterleavedDays :
          create_budget_query(t, u, 100, c, s, e)
    \/ \E t \in ThreadIds : create_budget_commit(t)

SpecInterleaved == InitRegistered /\ [][NextInterleaved]_vars

\* C26: when create_budget requests of one user for one category with
\* overlapping windows run concurrently, the overlap query and the commit of
\* each being separate steps, at most one of them stores its budget: no two
\* stored budgets of the same user and category overlap.
C26_NoOverlapUnderInterleaving ==
    \A b1 \in budgets, b2 \in budgets :
        (b1.id # b2.id /\ b1.user_id = b2.user_id /\ b1.category_id = b2.category_id)
            => ~(b1.end_date >= b2.start_date /\ b1.start_date <= b2.end_date)

\* ------------------------------------------------------ owner scoping spec
\* Two registered users create categories, one budget and one transaction and
\* address every entity by id: read, update, delete.
IsoMaxBudgets == 1
IsoMaxTransactions == 1
IsoEnds == {0, 1}
IsoAmounts == {10, 25}

category_by_id(u, c) ==
    \/ read_category(u, c)
    \/ \E n \in CategoryNames : update_category(u, c, n)
    \/ delete_category(u, c)

budget_by_id(u, b) ==
    \/ read_budget(u, b)
    \/ \E c \in CategoryIds, e \in IsoEnds : update_budget(u, b, 100, c, 0, e)
    \/ delete_budget(u, b)

transaction_by_id(u, t) ==
    \/ read_transaction(u, t)
    \/ \E a \in IsoAmounts, c \in CategoryIds : update_transaction(u, t, a, "lunch", c, NoDate)
    \/ delete_transaction(u, t)

NextIsolation ==
    \/ \E u \in UserIds, n \in CategoryNames : create_category(u, n)
    \/ \E u \in UserIds, c \in CategoryIds, e \in IsoEnds :
          /\ create_budget(u, 100, c, 0, e)
          /\ nextBudgetId' <= IsoMaxBudgets + 1
    \/ \E u \in UserIds, a \in IsoAmounts, c \in CategoryIds :
          /\ create_transaction(u, a, "lunch", c, NoDate)
          /\ nextTransactionId' <= IsoMaxTransactions + 1
    \/ \E u \in UserIds, c \in CategoryIds : category_by_id(u, c)
    \/ \E u \in UserIds, b \in BudgetIds : budget_by_id(u, b)
    \/ \E u \in UserIds, t \in TransactionIds : transaction_by_id(u, t)

SpecIsolation == InitRegistered /\ [][NextIsolation]_vars

\* C17: after any sequence of registration, create_category, update_category
\* and delete_category requests no user owns two distinct categories with the
\* same name.
C17_UniqueCategoryNames ==
    \A c1 \in categories, c2 \in categories :
        (c1.id # c2.id /\ c1.user_id = c2.user_id) => c1.name # c2.name

\* The row with this id exists and belongs to somebody else than u.
Foreign(rows, u, id) == \E r \in rows : r.id = id /\ r.user_id # u
Absent(rows, id) == \A r \in rows : r.id # id

NotFoundUnchanged(detail) ==
    /\ resp'.status = 404
    /\ resp'.detail = detail
    /\ resp'.body = <<>>
    /\ UNCHANGED store

\* C3: a get-by-id, update or delete of a budget, transaction or category by
\* a user who does not own it ends with not-found, exactly as for an id that
\* does not exist, returns no data and leaves the store unchanged.
C3_CrossUserNotFound ==
    [][LET u == resp'.user
           id == resp'.id
       IN /\ (/\ resp'.op \in {"read_category", "update_category", "delete_category"}
              /\ category_by_id(u, id)
              /\ Foreign(categories, u, id) \/ Absent(categories, id))
                => NotFoundUnchanged("Category not found")
          /\ (/\ resp'.op \in {"read_budget", "update_budget", "delete_budget"}
              /\ budget_by_id(u, id)
              /\ Foreign(budgets, u, id) \/ Absent(budgets, id))
                => NotFoundUnchanged("Budget not found")
          /\ (/\ resp'.op \in {"read_transaction", "update_transaction", "delete_transaction"}
              /\ transaction_by_id(u, id)
              /\ Foreign(transactions, u, id) \/ Absent(transactions, id))
                => NotFoundUnchanged("Transaction not found")]_vars

\* A user was answered not-found for deleting a budget that exists and is
\* another user's, whose owner also has a category and a transaction.
C3_Witness ==
    /\ resp.op = "delete_budget"
    /\ resp.status = 404
    /\ \E b \in budgets :
          /\ b.id = resp.id
          /\ b.user_id # resp.user
          /\ \E c \in categories : c.user_id = b.user_id
          /\ \E t \in transactions : t.user_id = b.user_id

\* ------------------------------------------------------- month arithmetic
NextMonthly ==
    \E u \in UserIds, months \in 1..MaxMonths : monthly_spending(u, months)

SpecMonthly == InitMonthly /\ [][NextMonthly]_vars

\* C7: for every current month m and every count k of trailing months the
\* start boundary of monthly_spending is the first day of month
\* ((m - k - 1) mod 12) + 1, the year going down by one for each year boundary
\* crossed (March and k = 8 give July of the previous year).
C7_MonthlyStartBoundary ==
    resp.op = "monthly_spending" =>
        LET k == resp.body[1].months_analyzed
            m == calendar.month
            start == resp.body[1].start_date
        IN /\ start.month = ((m - k - 1) % 12) + 1
           /\ start.year = calendar.year + ((m - k - 1) \div 12)
           /\ start.day = 1

\* ------------------------------------------------ trend month arithmetic
\* The monthly trends asked for on any month of the calendar, over every
\* timeframe from 0 to MaxMonths.
NextTrends ==
    \E u \in UserIds, timeframe \in 0..MaxMonths : transaction_trends(u, "monthly", timeframe)

SpecTrends == InitMonthly /\ [][NextTrends]_vars

\* The months from year 0 to the month of a date.
MonthIndex(d) == d.year * 12 + (d.month - 1)

\* C21: for every current month m and every timeframe t >= 0 the start
\* boundary of the monthly transaction_trends is the first day of the month
\* exactly t calendar months before the current one: the year goes down by
\* floor(t / 12), and by one more when m - (t mod 12) <= 0, and the month
\* lies in 1..12.
C21_TrendsStartBoundary ==
    [][(resp'.op = "transaction_trends" /\ resp'.body[1].interval = "monthly") =>
          LET t == resp'.body[1].timeframe
              m == calendar.month
              start == TrendsStartMonth(calendar.year, m, t)
          IN /\ start.day = 1
             /\ start.month \in 1..12
             /\ MonthIndex(start) = MonthIndex(calendar) - t
             /\ start.year = calendar.year - (t \div 12)
                                - (IF m - (t % 12) <= 0 THEN 1 ELSE 0)]_vars

\* The trends over 15 months were asked for in February: the start month is
\* November, two years back.
C21_Witness ==
    /\ resp.op = "transaction_trends"
    /\ resp.body[1].interval = "monthly"
    /\ resp.body[1].timeframe = 15
    /\ calendar.month = 2
    /\ TrendsStartMonth(calendar.year, calendar.month, 15)
          = [year |-> calendar.year - 2, month |-> 11, day |-> 1]

\* ------------------------------------------------- sequential limiter spec
\* One client, the default limiter, one request at a time.
NextLimiter ==
    \/ AdvanceClock
    \/ rate_limiting_middleware("10.0.0.1")

SpecLimiter == InitRegistered /\ [][NextLimiter]_vars

\* The entries of a list that are less than the window old at the clock.
InsideWindow(list) == {i \in 1..Len(list) : clock - list[i] < WindowSeconds}

\* C5: for one client and the ceiling of 60, a request that finds fewer than
\* 60 of the client's requests inside the last 60 seconds is admitted and
\* recorded, a request that finds 60 of them is rejected and not recorded, and
\* a request made when the earliest recorded timestamp is more than 60
\* seconds old is admitted.
C5_SixtyPerWindow ==
    [][LET c == "10.0.0.1"
           old == request_counts[c]
           new == request_counts'[c]
           request == clock' = clock
           admit == /\ resp'.detail = "call_next"
                    /\ Len(new) = Cardinality(InsideWindow(old)) + 1
                    /\ new[Len(new)] = clock
           reject == /\ resp'.detail # "call_next"
                     /\ resp'.status >= 400
                     /\ Len(new) = Cardinality(InsideWindow(old))
       IN request =>
            /\ requests_per_minute = 60
            /\ Cardinality(InsideWindow(old)) < 60 => admit
            /\ Cardinality(InsideWindow(old)) = 60 => reject
            /\ (old # <<>> /\ clock - old[1] > 60) => admit
            /\ Cardinality(InsideWindow(old)) <= 60]_vars

\* The 61st request of a window that has slid: 60 requests made at two
\* different times are inside the window and the request is rejected.
C5_Witness ==
    /\ resp.op = "rate_limiting_middleware"
    /\ resp.detail # "call_next"
    /\ Len(request_counts["10.0.0.1"]) = 60
    /\ request_counts["10.0.0.1"][1] > 0
    /\ request_counts["10.0.0.1"][1] # request_counts["10.0.0.1"][60]

\* ------------------------------------------------- limiter clients spec
\* Two clients and a small ceiling, one request at a time.
NextClients ==
    \/ AdvanceClock
    \/ \E c \in Clients : rate_limiting_middleware(c)

SpecClients == InitConcurrent /\ [][NextClients]_vars

\* The entries of a list that have not expired at the clock, in order.
StillInWindow(list) == SelectSeq(list, LAMBDA ts : clock - ts < WindowSeconds)

\* C24: no client's list ever holds more than requests_per_minute entries; a
\* rejected request records no timestamp, its client's list becoming the old
\* list without the expired entries; and a request leaves the list of every
\* other client as it was.
C24_RejectionRecordsNothing ==
    [][\A c \in Clients :
          /\ Len(request_counts[c]) <= requests_per_minute
          /\ Len(request_counts'[c]) <= requests_per_minute
          /\ rate_limiting_middleware(c) =>
               /\ \A d \in Clients \ {c} : request_counts'[d] = request_counts[d]
               /\ resp'.detail # "call_next" =>
                     request_counts'[c] = StillInWindow(request_counts[c])]_vars

\* A client was rejected with a full list, part of it recorded after the
\* clock moved, while the other client has entries of its own.
C24_Witness ==
    /\ resp.op = "rate_limiting_middleware"
    /\ resp.detail # "call_next"
    /\ \E c \in Clients, d \in Clients :
          /\ c # d
          /\ Len(request_counts[c]) = requests_per_minute
          /\ request_counts[c][1] # request_counts[c][requests_per_minute]
          /\ request_counts[d] # <<>>
          /\ Len(request_counts[d]) < requests_per_minute

\* ------------------------------------------------- concurrent limiter spec
NextConcurrent ==
    \/ AdvanceClock
    \/ \E t \in ThreadIds : enter(t, "10.0.0.1")
    \/ \E t \in ThreadIds : acquire(t)
    \/ \E t \in ThreadIds : clean_read(t)
    \/ \E t \in ThreadIds : clean_assign(t)
    \/ \E t \in ThreadIds : check(t)
    \/ \E t \in ThreadIds : append(t)
    \/ \E t \in ThreadIds : release(t)

SpecConcurrent == InitConcurrent /\ [][NextConcurrent]_vars

\* The threads between acquiring and releasing the lock.
InCritical == {t \in ThreadIds : threads[t].pc \in {"clean", "assign", "check", "append", "release"}}

\* How many times a timestamp is in a client's list.
Occurrences(list, ts) == Cardinality({i \in 1..Len(list) : list[i] = ts})

\* C6: the clean-check-append sequence runs under mutual exclusion; in every
\* interleaving of concurrent requests of one client the list holds one entry
\* per admitted request whose timestamp has not expired, and never more
\* entries than the ceiling.
C6_MutualExclusionNoLostTimestamp ==
    /\ Cardinality(InCritical) <= 1
    /\ InCritical # {} => lock \in InCritical
    /\ \A c \in Clients :
         /\ Len(request_counts[c]) <= requests_per_minute
         /\ \A ts \in 0..MaxClock :
              /\ Occurrences(request_counts[c], ts) <= CopiesIn(ts, admitted[c])
              /\ (clock - ts < WindowSeconds /\ ~\E t \in InCritical : threads[t].pc = "append")
                   => Occurrences(request_counts[c], ts) = CopiesIn(ts, admitted[c])

\* A request found the list full and is about to be rejected while another
\* request of the same client waits for the lock.
C6_Witness ==
    \E t1, t2 \in ThreadIds :
        /\ threads[t1].pc = "release"
        /\ threads[t1].limited
        /\ threads[t2].pc = "lock"
        /\ threads[t2].client_ip = threads[t1].client_ip
        /\ Len(request_counts[threads[t1].client_ip]) = requests_per_minute
        /\ clock > 0

RECURSIVE CopiesAmong(_, _)
\* How many entries of a bag of timestamps lie in a set of times.
CopiesAmong(times, bag) ==
    IF times = {} THEN 0
    ELSE LET ts == CHOOSE x \in times : TRUE
         IN CopiesIn(ts, bag) + CopiesAmong(times \ {ts}, bag)

\* The times of the 60 seconds that end at s.
SpanEndingAt(s) == {ts \in 0..MaxClock : s - ts < WindowSeconds /\ ts <= s}

\* C23: under any interleaving of the concurrent requests of one client, each
\* reading the clock before it acquires the lock, no span of 60 seconds holds
\* the timestamps of more admitted requests than the ceiling.
C23_CeilingPerSpanConcurrent ==
    \A c \in Clients : \A s \in 0..MaxClock :
        CopiesAmong(SpanEndingAt(s), admitted[c]) <= requests_per_minute

\* ------------------------------------------------------------- report spec
RepMaxBudgets == 1
RepMaxTransactions == 2
RepDays == {0, 1}
RepAmounts == {10, 25}
RepTicks == {1, 2}

\* Categories, budgets and transactions are created, categories deleted, and
\* the two budget reports asked for at any time.
NextReport ==
    \/ Tick
    \/ \E u \in UserIds : create_category(u, "Food")
    \/ \E u \in UserIds, c \in CategoryIds :
         /\ delete_category(u, c)
         /\ resp'.status < 400
    \/ \E u \in UserIds, c \in CategoryIds, s \in RepDays, e \in RepDays :
         /\ create_budget(u, 100, c, s, e)
         /\ resp'.status < 400
         /\ nextBudgetId' <= RepMaxBudgets + 1
    \/ \E u \in UserIds, a \in RepAmounts, c \in CategoryIds, d \in RepTicks :
         /\ create_transaction(u, a, "lunch", c, d)
         /\ resp'.status # 404
         /\ nextTransactionId' <= RepMaxTransactions + 1
    \/ \E u \in UserIds, active_only \in BOOLEAN : get_budget_status(u, active_only)
    \/ \E u \in UserIds : budget_performance(u)

SpecReport == InitRegistered /\ [][NextReport]_vars

\* The row references a category that exists and has the row's owner.
ReferencesOwnedCategory(row) ==
    \E c \in categories : c.id = row.category_id /\ c.user_id = row.user_id

\* C25: after any sequence of category, transaction and budget requests
\* every stored transaction and every stored budget references a category
\* that exists and is owned by the user of the transaction or budget.
C25_ReferencesOwnedCategories ==
    /\ \A t \in transactions : ReferencesOwnedCategory(t)
    /\ \A b \in budgets : ReferencesOwnedCategory(b)

\* C9: the reports on budgets answer with a result in every state of the
\* store that creating, updating and deleting can reach, a deleted category
\* that a budget still refers to included.
C9_ReportsNeverFail ==
    resp.op \in {"get_budget_status", "budget_performance"} => resp.status = 200

\* The transactions the claim counts for a reported budget.
CountedFor(u, s) ==
    {t \in transactions : /\ t.user_id = u
                          /\ t.category_id = s.category_id
                          /\ \E d \in Days \cup {MaxDay + 1} :
                               /\ d * TicksPerDay <= t.date
                               /\ t.date < (d + 1) * TicksPerDay
                               /\ s.start_date <= d
                               /\ d <= s.end_date}

\* C10: for every budget get_budget_status returns, spent is the sum of the
\* amounts of the stored transactions of the caller in the budget's category
\* whose calendar date lies in [start_date, end_date], both ends included and
\* the time of day ignored; it is 0 when there are none.
C10_SpentIsSumInWindow ==
    (resp.op = "get_budget_status" /\ resp.status = 200) =>
        \A i \in 1..Len(resp.body) :
            LET s == resp.body[i]
                counted == CountedFor(resp.user, s)
            IN /\ s.spent = SumAmount(counted)
               /\ counted = {} => s.spent = 0

\* A reported budget whose spent counts a transaction made on the end date
\* after midnight and leaves out a transaction of the same category made the
\* day after.
C10_Witness ==
    /\ resp.op = "get_budget_status"
    /\ resp.status = 200
    /\ \E i \in 1..Len(resp.body) :
         LET s == resp.body[i]
         IN /\ s.spent > 0
            /\ \E t \in CountedFor(resp.user, s) :
                 /\ DateOf(t.date) = s.end_date
                 /\ t.date % TicksPerDay # 0
            /\ \E t \in transactions :
                 /\ t.category_id = s.category_id
                 /\ t \notin CountedFor(resp.user, s)

\* remaining and percentage_used of one reported entry against its amount.
RemainingAndPercentage(amount, spent, remaining, percentage_used) ==
    /\ remaining = amount - spent
    /\ amount > 0 => percentage_used * amount = spent * 100
    /\ amount <= 0 => percentage_used = 0

\* C11: every budget reported by get_budget_status and budget_performance has
\* remaining = amount - spent, and percentage_used = spent / amount * 100 when
\* amount > 0 and 0 otherwise.
C11_RemainingAndPercentage ==
    /\ (resp.op = "get_budget_status" /\ resp.status = 200) =>
          \A i \in 1..Len(resp.body) :
              LET s == resp.body[i]
              IN RemainingAndPercentage(s.amount, s.spent, s.remaining, s.percentage_used)
    /\ (resp.op = "budget_performance" /\ resp.status = 200) =>
          \A i \in 1..Len(resp.body) :
              LET p == resp.body[i]
              IN RemainingAndPercentage(p.budget_amount, p.spent, p.remaining,
                                        p.percentage_used)

\* budget_performance reports a budget of which two transactions have used 35
\* of 100.
C11_Witness ==
    /\ resp.op = "budget_performance"
    /\ resp.status = 200
    /\ \E i \in 1..Len(resp.body) :
         /\ resp.body[i].spent = 35
         /\ resp.body[i].remaining = 65
         /\ resp.body[i].percentage_used = 35

\* The budgets the claim selects for a caller.
ClaimedSelection(u, active_only) ==
    {b \in budgets : /\ b.user_id = u
                     /\ active_only => (b.start_date <= now \div TicksPerDay
                                        /\ now \div TicksPerDay <= b.end_date)}

\* C12: get_budget_status returns exactly one BudgetStatus per selected budget:
\* all budgets of the caller when active_only is false, the caller's budgets
\* with start_date <= today <= end_date when it is true; never a budget of
\* another user.
C12_OneStatusPerSelectedBudget ==
    [][\A u \in UserIds, active_only \in BOOLEAN :
          get_budget_status(u, active_only) =>
             /\ resp'.status = 200
             /\ Len(resp'.body) = Cardinality(ClaimedSelection(u, active_only))
             /\ {resp'.body[i].id : i \in 1..Len(resp'.body)}
                   = {b.id : b \in ClaimedSelection(u, active_only)}
             /\ \A i \in 1..Len(resp'.body) : resp'.body[i].user_id = u]_vars

\* ------------------------------------------------- spending breakdown spec
SpendAmounts == {-10, 10, 20}
SpendStarts == {NoDate, 0}
SpendEnds == {NoDate, MaxDay}

\* Two users file transactions under their categories, delete categories and
\* ask for the breakdown of a window.
NextSpending ==
    \/ Tick
    \/ \E u \in UserIds, n \in CategoryNames : create_category(u, n)
    \/ \E u \in UserIds, c \in CategoryIds :
         /\ delete_category(u, c)
         /\ resp'.status < 400
    \/ \E u \in UserIds, a \in SpendAmounts, c \in CategoryIds, d \in RepTicks :
         /\ create_transaction(u, a, "lunch", c, d)
         /\ resp'.status # 404
    \/ \E u \in UserIds, s \in SpendStarts, e \in SpendEnds : spending_by_category(u, s, e)

SpecSpending == InitRegistered /\ [][NextSpending]_vars

\* The largest denominator among the percentages of a breakdown.
RECURSIVE MaxDenominator(_)
MaxDenominator(items) ==
    IF items = <<>> THEN 1
    ELSE LET rest == MaxDenominator(Tail(items))
         IN IF Head(items).percentage[2] > rest THEN Head(items).percentage[2] ELSE rest

\* The percentages of a breakdown, as numerators over the denominator den.
ScaledPercentages(items, den) ==
    [i \in 1..Len(items) |-> items[i].percentage[1] * (den \div items[i].percentage[2])]

RECURSIVE SumSeq(_)
SumSeq(q) == IF q = <<>> THEN 0 ELSE Head(q) + SumSeq(Tail(q))

PerfAmounts == {25, 60}

\* Budgets over any window of days, transactions filed now, and the
\* performance report asked for on every day.
NextPerformance ==
    \/ Tick
    \/ \E u \in UserIds : create_category(u, "Food")
    \/ \E u \in UserIds, c \in CategoryIds, s \in Days, e \in Days :
         /\ create_budget(u, 100, c, s, e)
         /\ resp'.status < 400
         /\ nextBudgetId' <= RepMaxBudgets + 1
    \/ \E u \in UserIds, a \in PerfAmounts, c \in CategoryIds :
         /\ create_transaction(u, a, "lunch", c, NoDate)
         /\ resp'.status # 404
    \/ \E u \in UserIds : budget_performance(u)

SpecPerformance == InitRegistered /\ [][NextPerformance]_vars

\* The entries of a budget_performance response.
Reported == IF resp.op = "budget_performance" /\ resp.status = 200
            THEN {resp.body[i] : i \in 1..Len(resp.body)} ELSE {}

\* min(today - start_date, end_date - start_date) of a reported entry.
ClaimedDaysElapsed(p) ==
    LET today == now \div TicksPerDay
    IN IF today - p.start_date <= p.end_date - p.start_date
       THEN today - p.start_date ELSE p.end_date - p.start_date

\* C14: in budget_performance, with days_elapsed = min(today - start_date,
\* end_date - start_date): when days_elapsed <= 0 the daily_burn_rate is 0 and
\* forecast_status is "Not Started"; when days_elapsed > 0 the daily_burn_rate
\* is spent / days_elapsed.
C14_BurnRate ==
    [][now' = now =>
         (\A p \in Reported :
             LET days_elapsed == ClaimedDaysElapsed(p)
             IN /\ days_elapsed <= 0 =>
                     /\ p.daily_burn_rate[1] = 0
                     /\ p.forecast_status = "Not Started"
                /\ days_elapsed > 0 =>
                     p.daily_burn_rate[1] * days_elapsed = p.spent * p.daily_burn_rate[2])']_vars

\* On day 1 the report shows a budget over days 0..1 with money spent: one
\* day has elapsed and the burn rate is what was spent.
C14_Witness ==
    \E p \in Reported :
        /\ p.spent > 0
        /\ p.start_date = 0
        /\ p.end_date = 1
        /\ now \div TicksPerDay = 1
        /\ p.daily_burn_rate = <<p.spent, 1>>

\* forecast_end_amount = spent + daily_burn_rate * days_remaining, on the
\* quotients of a reported entry.
ForecastFormula(p) ==
    p.forecast_end_amount[1] * p.daily_burn_rate[2]
       = (p.spent * p.daily_burn_rate[2] + p.daily_burn_rate[1] * p.days_remaining)
            * p.forecast_end_amount[2]

\* "Under Budget" when forecast_end_amount <= budget amount, "Projected Over
\* Budget" otherwise.
ForecastStatusMatches(p) ==
    p.forecast_status = IF p.forecast_end_amount[1] <= p.budget_amount * p.forecast_end_amount[2]
                        THEN "Under Budget" ELSE "Projected Over Budget"

\* C15 (as written): in budget_performance every budget of the caller has
\* forecast_end_amount = spent + daily_burn_rate * days_remaining, and a
\* started budget has forecast_status "Under Budget" when forecast_end_amount
\* <= budget amount and "Projected Over Budget" otherwise.
C15_Forecast ==
    [][now' = now =>
         (\A p \in Reported :
             /\ ForecastFormula(p)
             /\ ClaimedDaysElapsed(p) > 0 => ForecastStatusMatches(p))']_vars

\* C15 (amended): the formula and the two statuses hold for the budgets with
\* days_elapsed > 0; a budget with days_elapsed <= 0 is reported with
\* forecast_end_amount 0 and "Not Started", whatever it has spent.
C15_ForecastOfStartedBudgets ==
    [][now' = now =>
         (\A p \in Reported :
             /\ ClaimedDaysElapsed(p) > 0 =>
                  /\ ForecastFormula(p)
                  /\ ForecastStatusMatches(p)
             /\ ClaimedDaysElapsed(p) <= 0 =>
                  /\ p.forecast_end_amount[1] = 0
                  /\ p.forecast_status = "Not Started")']_vars

\* A started budget with a day to go whose forecast, twice what it has spent,
\* is over the budget amount.
C15_Witness ==
    \E p \in Reported :
        /\ now \div TicksPerDay - p.start_date = 1
        /\ p.days_remaining = 1
        /\ p.spent > 0
        /\ p.forecast_end_amount = <<2 * p.spent, 1>>
        /\ p.forecast_status = "Projected Over Budget"

\* C16: in budget_performance is_active holds exactly when start_date <=
\* today <= end_date; days_remaining is end_date - today for an active budget
\* and 0 otherwise, and is never negative, also for a budget whose end_date
\* precedes its start_date.
C16_ActiveAndDaysRemaining ==
    [][now' = now =>
         (\A p \in Reported :
             LET today == now \div TicksPerDay
             IN /\ p.is_active <=> (p.start_date <= today /\ today <= p.end_date)
                /\ p.is_active => p.days_remaining = p.end_date - today
                /\ ~p.is_active => p.days_remaining = 0
                /\ p.days_remaining >= 0)']_vars

\* A budget whose end_date precedes its start_date, reported before both
\* dates: not active, no days remaining.
C16_Witness ==
    \E p \in Reported :
        /\ p.end_date < p.start_date
        /\ now \div TicksPerDay < p.end_date
        /\ ~p.is_active
        /\ p.days_remaining = 0

\* ---------------------------------------------------------- read-only spec
TrendIntervals == {"daily", "monthly"}
TrendTimeframes == {1, 13}
MonthCounts == {1, 6}

\* The six aggregation endpoints, by the op of their response.
AggregationOps == {"get_budget_status", "spending_by_category", "monthly_spending",
                   "transaction_trends", "budget_performance", "spending_insights"}

\* A category, a budget and transactions are created, and the six
\* aggregation endpoints asked at any time.
NextReadOnly ==
    \/ Tick
    \/ \E u \in UserIds : create_category(u, "Food")
    \/ \E u \in UserIds, c \in CategoryIds, e \in RepDays :
         /\ create_budget(u, 100, c, 0, e)
         /\ resp'.status < 400
         /\ nextBudgetId' <= RepMaxBudgets + 1
    \/ \E u \in UserIds, a \in RepAmounts, c \in CategoryIds :
         /\ create_transaction(u, a, "lunch", c, NoDate)
         /\ resp'.status # 404
    \/ \E u \in UserIds, active_only \in BOOLEAN : get_budget_status(u, active_only)
    \/ \E u \in UserIds, s \in SpendStarts, e \in SpendEnds : spending_by_category(u, s, e)
    \/ \E u \in UserIds, months \in MonthCounts : monthly_spending(u, months)
    \/ \E u \in UserIds, interval \in TrendIntervals, timeframe \in TrendTimeframes :
         transaction_trends(u, interval, timeframe)
    \/ \E u \in UserIds : budget_performance(u)
    \/ \E u \in UserIds : spending_insights(u)

SpecReadOnly == InitRegistered /\ [][NextReadOnly]_vars

\* C19: a request to any of the six aggregation endpoints (budget status,
\* spending by category, monthly spending, transaction trends, budget
\* performance, spending insights) leaves the users, categories, budgets and
\* transactions, and the key sequences, exactly as they were.
C19_AggregationsReadOnly ==
    [][resp'.op \in AggregationOps => UNCHANGED store]_vars

\* The insights of a month with transactions have been reported.
C19_Witness ==
    /\ resp.op = "spending_insights"
    /\ resp.status = 200
    /\ budgets # {}
    /\ resp.body[1].transaction_count = 2
    /\ resp.body[1].biggest_expense_category = "Food"

\* ------------------------------------------------------------ the whole API
\* From the empty store: registration, category creation and the transaction
\* writes, while the clock advances.
ApiAmounts == {0, 10}
ApiDates == {NoDate, 0, MaxNow}

Next ==
    \/ Tick
    \/ \E e \in Emails : create_user(e)
    \/ \E u \in UserIds : create_category(u, "Food")
    \/ \E u \in UserIds, a \in ApiAmounts, c \in CategoryIds, t \in ApiDates :
          create_transaction(u, a, "lunch", c, t)
    \/ \E u \in UserIds, i \in TransactionIds, a \in ApiAmounts, c \in CategoryIds,
          t \in ApiDates :
          update_transaction(u, i, a, "lunch", c, t)
    \/ \E u \in UserIds, i \in TransactionIds : delete_transaction(u, i)
    \/ \E u \in UserIds, c \in CategoryIds \cup {NoCategory} : read_transactions(u, c)

Spec == Init /\ [][Next]_vars

\* C4: in every reachable store state no transaction carries a date later
\* than the current time (a future-dated create_transaction stores nothing).
C4_NoFutureDatedTransaction ==
    \A t \in transactions : t.date <= now

\* C18: after any sequence of create_transaction and update_transaction
\* requests every stored transaction has an amount greater than 0 (a request
\* with a zero or negative amount stores nothing).
C18_PositiveAmounts ==
    \A t \in transactions : t.amount > 0

\* The names create_user lists as default_categories.
DefaultCategoryNames == {"Food", "Transportation", "Entertainment", "Housing", "Utilities"}

\* C20: every user row in the store owns a category of each of the five
\* default names (registration stores the user together with its default
\* categories, and no user exists without them).
C20_DefaultCategoriesSeeded ==
    \A x \in users :
        \A n \in DefaultCategoryNames :
            \E c \in categories : c.user_id = x.id /\ c.name = n

\* C22: listing transactions with a category_id filter that names a
\* category the caller does not own, another user's or one that does not
\* exist, is answered not-found and returns no transactions.
C22_ListForeignCategoryNotFound ==
    [][(/\ resp'.op = "read_transactions"
        /\ resp'.id # NoCategory
        /\ OwnedCategory(resp'.user, resp'.id) = {})
          => resp'.status = 404 /\ resp'.body = <<>>]_vars

\* C8: a request that ends in an error response leaves the store exactly as
\* it was before the request.
C8_FailedRequestChangesNothing ==
    [][resp'.status >= 400 => UNCHANGED store]_vars
====
